---- MODULE Spec2Model ----
(***************************************************************************)
(* A model of garden-service/src/logger/writers/fullscreen-terminal-writer *)
(* (.ts): the FullscreenTerminalWriter (throttled diff rendering of the    *)
(* log graph with spinner animation) and the BufferedEventStream (batched  *)
(* flushing of events and log entries).                                    *)
(*                                                                         *)
(* Strings are sequences of characters; a character is a small integer.    *)
(* Rows and line numbers are 0-based as in the source; TLA+ sequences are  *)
(* 1-based, so row y of a list of lines is element y + 1.                  *)
(***************************************************************************)
EXTENDS Integers, Sequences, FiniteSets, TLC

VARIABLES
    \* FullscreenTerminalWriter fields
    level, spinners, intervalID, lastInterceptAt, updatePending, initialized,
    errorMessages, prevOutput, logger, main,
    \* the runtime's timers, the clock and the log graph
    intervals, timeouts, now, entries,
    \* exploration budgets
    nNotifs, nUpdates, nAux,
    \* observations of the writer's run (history variables)
    burst, lastNotifAt, renderAt, owed, lastCall, deferrals, lastWrite,
    clean, lastRender, seenActive, retired, afterBuild, stopped, propagated,
    \* BufferedEventStream fields and observations
    bufferedEvents, bufferedLogEntries, intervalId, posted, flushes,
    shutdownRan, arrived, nStreamed, nFlushes

writerVars == <<level, spinners, intervalID, lastInterceptAt, updatePending,
                initialized, errorMessages, prevOutput, logger, main,
                intervals, timeouts,
                renderAt, owed, lastCall, deferrals, lastWrite, clean,
                lastRender, seenActive, retired, afterBuild, stopped,
                propagated>>
envVars == <<now, entries, nNotifs, nUpdates, nAux, burst,
             lastNotifAt>>
streamVars == <<bufferedEvents, bufferedLogEntries, intervalId, posted,
                flushes, shutdownRan, arrived, nStreamed, nFlushes>>
vars == <<writerVars, envVars, streamVars>>

----------------------------------------------------------------------------
(* Program constants *)

THROTTLE_MS == 600
MAX_BATCH_SIZE == 200

\* LogLevel (log-node): error = 0, warn = 1, info = 2
LogLevelError == 0
LogLevelWarn == 1
LogLevelInfo == 2

\* null, for lastInterceptAt and for a timer handle
Null == -1
NoTimer == 0

\* characters: "\n", " ", and two letters of message text
NL == 0
SP == 1
CharA == 2
CharB == 3
\* the styled spinner glyph of frame i, one character wide in this model
spinnerBytes == 1
GlyphBase == 10

(* Bounds of the model *)

NumFrames == 2        \* frames of one elegant-spinner cycle
MainWidth == 5        \* this.main.width, in characters
Tick == 300           \* granularity of the clock, ms
MaxTicks == 4         \* the clock stops at Tick * MaxTicks
MaxEntries == 2       \* entries in the log graph
MaxOps == 4           \* onGraphChange calls, key presses, spinner interval
                      \* firings and stop() calls, together
MaxUpdates == 1       \* setState calls on existing entries
Surplus == 50         \* records buffered beyond MAX_BATCH_SIZE
MaxStreamed == 2      \* records streamed after the first flush
MaxFlushes == 2       \* firings of the flush interval

----------------------------------------------------------------------------
(* Helpers *)

Min(a, b) == IF a < b THEN a ELSE b

Put(f, k, v) == [x \in DOMAIN f \cup {k} |-> IF x = k THEN v ELSE f[x]]

Del(f, k) == [x \in DOMAIN f \ {k} |-> f[x]]

\* str.substring(from, to) and str.slice(from, to), 0-based, end exclusive
substring(str, from, to) ==
    SubSeq(str, Min(from, Len(str)) + 1, Min(to, Len(str)))

\* str.substring(from) and str.slice(from)
substringFrom(str, from) == SubSeq(str, Min(from, Len(str)) + 1, Len(str))

RECURSIVE CountNL(_)
CountNL(str) ==
    IF str = <<>> THEN 0
    ELSE (IF Head(str) = NL THEN 1 ELSE 0) + CountNL(Tail(str))

\* str.split("\n"): always at least one line
RECURSIVE SplitNL(_)
SplitNL(str) ==
    IF \A i \in 1..Len(str) : str[i] # NL THEN <<str>>
    ELSE LET i == CHOOSE j \in 1..Len(str) :
                      str[j] = NL /\ \A h \in 1..(j - 1) : str[h] # NL
         IN <<SubSeq(str, 1, i - 1)>> \o SplitNL(SubSeq(str, i + 1, Len(str)))

\* terminalEntries.map((e) => e.text).join("")
RECURSIVE JoinTexts(_)
JoinTexts(tes) ==
    IF tes = <<>> THEN <<>> ELSE Head(tes).text \o JoinTexts(Tail(tes))

\* wrapAnsi(str, cols, {trim: false, hard: true}): a line longer than cols
\* is broken, existing newlines are kept
RECURSIVE WrapFrom(_, _, _)
WrapFrom(str, col, cols) ==
    IF str = <<>> THEN <<>>
    ELSE IF Head(str) = NL THEN <<NL>> \o WrapFrom(Tail(str), 0, cols)
    ELSE IF col >= cols THEN <<NL, Head(str)>> \o WrapFrom(Tail(str), 1, cols)
    ELSE <<Head(str)>> \o WrapFrom(Tail(str), col + 1, cols)

wrapAnsi(str, cols) == WrapFrom(str, 0, cols)

\* spinnerStyle(frame): the styled glyph
spinnerStyle(frame) == GlyphBase + frame

\* renderMsg(e): the raw message of a std-stream entry
renderMsg(e) == e.msg

\* formatForTerminal(e, "fancy"): empty for an empty entry, else the
\* decorated message and a newline
formatForTerminal(e) == IF e.msg = <<>> THEN <<>> ELSE e.msg \o <<NL>>

\* leftPad(entry).length: entries of the graph's top level are not indented
leftPadLength(e) == 0

\* the canvas: main.getLine(y), main.setLine(y, line)
getLine(rows, y) == IF y < Len(rows) THEN rows[y + 1] ELSE <<>>

setLine(rows, y, line) ==
    [i \in 1..(IF y + 1 > Len(rows) THEN y + 1 ELSE Len(rows)) |->
        IF i = y + 1 THEN line
        ELSE IF i <= Len(rows) THEN rows[i] ELSE <<>>]

----------------------------------------------------------------------------
(* The writer as a record, so that its methods are operators on it *)

W == [level |-> level, spinners |-> spinners, intervalID |-> intervalID,
      lastInterceptAt |-> lastInterceptAt, updatePending |-> updatePending,
      initialized |-> initialized, errorMessages |-> errorMessages,
      prevOutput |-> prevOutput, logger |-> logger, main |-> main,
      intervals |-> intervals, timeouts |-> timeouts,
      renderAt |-> renderAt, owed |-> owed, lastCall |-> lastCall,
      deferrals |-> deferrals, lastWrite |-> lastWrite, clean |-> clean,
      lastRender |-> lastRender, seenActive |-> seenActive,
      retired |-> retired, afterBuild |-> afterBuild, stopped |-> stopped,
      propagated |-> propagated]

Assign(w) ==
    /\ level' = w.level
    /\ spinners' = w.spinners
    /\ intervalID' = w.intervalID
    /\ lastInterceptAt' = w.lastInterceptAt
    /\ updatePending' = w.updatePending
    /\ initialized' = w.initialized
    /\ errorMessages' = w.errorMessages
    /\ prevOutput' = w.prevOutput
    /\ logger' = w.logger
    /\ main' = w.main
    /\ intervals' = w.intervals
    /\ timeouts' = w.timeouts
    /\ renderAt' = w.renderAt
    /\ owed' = w.owed
    /\ lastCall' = w.lastCall
    /\ deferrals' = w.deferrals
    /\ lastWrite' = w.lastWrite
    /\ clean' = w.clean
    /\ lastRender' = w.lastRender
    /\ seenActive' = w.seenActive
    /\ retired' = w.retired
    /\ afterBuild' = w.afterBuild
    /\ stopped' = w.stopped
    /\ propagated' = w.propagated

----------------------------------------------------------------------------
(* FullscreenTerminalWriter: spinner loop *)

\* tickSpinner(key): the generator is created on first use (elegantSpinner():
\* i = 0, each call returns frames[i = ++i % frames.length])
tickSpinner(sp, key) ==
    LET i == IF key \in DOMAIN sp THEN sp[key] ELSE 0
        j == (i + 1) % NumFrames
    IN [spinners |-> Put(sp, key, j), frame |-> j]

stopLoop(w) ==
    IF w.intervalID # NoTimer
    THEN [w EXCEPT !.intervals = {iv \in @ : iv.id # w.intervalID},
                   !.intervalID = NoTimer]
    ELSE w

\* setInterval returns a handle no live timer has
FreshId(ivs) ==
    CHOOSE i \in 1..(Cardinality(ivs) + 1) : \A iv \in ivs : iv.id # i

\* the closure of the interval keeps the entries it was started with
SpinTargets(tes) ==
    [i \in 1..Len(tes) |->
        [key |-> tes[i].key, spinnerCoords |-> tes[i].spinnerCoords]]

\* a startLoop that does not stop the loop first
startLoop_NoStop(w, tes) ==
    LET id == FreshId(w.intervals)
    IN [w EXCEPT !.intervals = @ \cup {[id |-> id, entries |-> SpinTargets(tes)]},
                 !.intervalID = id]

startLoop(w, tes) ==
    LET s == stopLoop(w)
        id == FreshId(s.intervals)
    IN [s EXCEPT !.intervals = @ \cup {[id |-> id, entries |-> SpinTargets(tes)]},
                 !.intervalID = id]

\* spin(entries): the next glyph of every entry is written at its coords
RECURSIVE spin(_, _)
spin(w, tes) ==
    IF tes = <<>> THEN w
    ELSE LET e == Head(tes)
             x == e.spinnerCoords[1]
             y == e.spinnerCoords[2]
             line == getLine(w.main, y)
             t == tickSpinner(w.spinners, e.key)
             newLine == substring(line, 0, x) \o <<spinnerStyle(t.frame)>>
                          \o substringFrom(line, x + spinnerBytes)
         IN spin([w EXCEPT !.spinners = t.spinners,
                           !.main = setLine(@, y, newLine)], Tail(tes))

----------------------------------------------------------------------------
(* FullscreenTerminalWriter: write, the diff against prevOutput *)

\* a diff that compares row y with the row before it
RowChanged_OffByOne(prev, y, line) ==
    Len(prev) < y \/ (IF 1 <= y /\ y <= Len(prev) THEN prev[y] # line ELSE TRUE)

\* the test of the loop of write(), for row y (0-based) holding line
RowChanged(prev, y, line) ==
    Len(prev) < y \/ (IF y < Len(prev) THEN prev[y + 1] # line ELSE TRUE)

ChangedRows(prev, output) ==
    {y \in 0..(Len(output) - 1) : RowChanged(prev, y, output[y + 1])}

RECURSIVE SetLines(_, _, _, _)
SetLines(rows, output, changed, y) ==
    IF y >= Len(output) THEN rows
    ELSE SetLines(IF y \in changed THEN setLine(rows, y, output[y + 1]) ELSE rows,
                  output, changed, y + 1)

write(w, output) ==
    LET changed == ChangedRows(w.prevOutput, output)
    IN [w EXCEPT !.main = SetLines(@, output, changed, 0),
                 !.lastWrite = [called |-> TRUE, prev |-> w.prevOutput,
                                output |-> output, rows |-> changed]]

----------------------------------------------------------------------------
(* FullscreenTerminalWriter: fullRender, the snapshot build *)

NoCoords == <<>>

\* the text of one entry: rendered, the spinner spliced in, wrapped
EntryText(entry, spinnerFrame, spinnerX) ==
    LET str == IF entry.fromStdStream THEN renderMsg(entry)
               ELSE formatForTerminal(entry)
        spun == IF spinnerFrame # Null
                THEN substring(str, 0, spinnerX)
                       \o <<spinnerStyle(spinnerFrame), SP>>
                       \o substringFrom(str, spinnerX)
                ELSE str
    IN wrapAnsi(spun, MainWidth - 2)

\* the filter of fullRender
Visible(lvl, entry) == lvl >= entry.level

\* a line count that forgets the - 1
lineAdvance_Lines(text) == CountNL(text) + 1

\* line 394: text.split("\n").length - 1
lineAdvance(text) == Len(SplitNL(text)) - 1

\* the reduce of fullRender over the visible entries
RECURSIVE FullRenderFrom(_, _, _, _)
FullRenderFrom(es, sp, currentLineNumber, acc) ==
    IF es = <<>> THEN [spinners |-> sp, entries |-> acc]
    ELSE LET entry == Head(es)
             active == entry.status = "active"
             t == tickSpinner(sp, entry.key)
             sp1 == IF active THEN t.spinners ELSE Del(sp, entry.key)
             spinnerX == leftPadLength(entry)
             spinnerFrame == IF active THEN t.frame ELSE Null
             spinnerCoords == IF active THEN <<spinnerX, currentLineNumber>>
                              ELSE NoCoords
             text == EntryText(entry, spinnerFrame, spinnerX)
             acc1 == IF text # <<>>
                     THEN Append(acc, [key |-> entry.key,
                                       lineNumber |-> currentLineNumber,
                                       spinnerCoords |-> spinnerCoords,
                                       text |-> text])
                     ELSE acc
         IN FullRenderFrom(Tail(es), sp1,
                        currentLineNumber + lineAdvance(text), acc1)

CoordKeys(tes) ==
    {tes[i].key : i \in {j \in 1..Len(tes) : tes[j].spinnerCoords # NoCoords}}

\* the (key, coords) pairs of the records that have spinnerCoords
CoordPairs(tes) ==
    {<<tes[i].key, tes[i].spinnerCoords>> :
        i \in {j \in 1..Len(tes) : tes[j].spinnerCoords # NoCoords}}

\* fullRender(logger): the snapshot and the writer with its spinners updated;
\* g is getChildEntries(logger), the entries of the graph in traversal order
fullRender(w, g) ==
    LET visible == SelectSeq(g, LAMBDA e : Visible(w.level, e))
        r == FullRenderFrom(visible, w.spinners, 0, <<>>)
        nowActive == {visible[i].key :
                        i \in {j \in 1..Len(visible) : visible[j].status = "active"}}
    IN [entries |-> r.entries,
        w |-> [w EXCEPT !.spinners = r.spinners,
                        !.afterBuild = [retired |-> w.retired,
                                        spinnerKeys |-> DOMAIN r.spinners,
                                        coordKeys |-> CoordKeys(r.entries),
                                        coordPairs |-> CoordPairs(r.entries),
                                        visible |-> visible,
                                        snapshot |-> r.entries],
                        !.seenActive = (@ \ w.retired) \cup nowActive,
                        !.retired = {}]]

----------------------------------------------------------------------------
(* FullscreenTerminalWriter: render, handleGraphChange, changeLevel, stop *)

HasSpinner(e) == e.spinnerCoords # NoCoords

render(w, terminalEntries, didWrite) ==
    LET output == SplitNL(JoinTexts(terminalEntries))
        w1 == IF ~didWrite THEN write(w, output) ELSE w
        w2 == [w1 EXCEPT !.prevOutput = output]
        entriesWithspinner == SelectSeq(terminalEntries, HasSpinner)
        w3 == IF Len(entriesWithspinner) > 0
              THEN startLoop(w2, entriesWithspinner)
              ELSE stopLoop(w2)
    IN [w3 EXCEPT !.renderAt = IF Len(@) < 2 THEN Append(@, now)
                               ELSE <<@[2], now>>,
                  !.owed = IF didWrite THEN @ ELSE FALSE,
                  !.lastRender = [called |-> TRUE, didWrite |-> didWrite,
                                  repeat |-> w.clean,
                                  setLines |-> IF didWrite THEN 0
                                               ELSE Cardinality(w1.lastWrite.rows),
                                  spinning |-> Len(entriesWithspinner) > 0,
                                  output |-> output, fresh |-> TRUE,
                                  wasLooping |-> w.intervalID # NoTimer],
                  !.clean = TRUE]

\* a throttle test that forgets the catch-up call
Intercepted_IgnoresDidWrite(log, didWrite) == log.fromStdStream

\* line 302: the notification is one to throttle
Intercepted(log, didWrite) == log.fromStdStream /\ ~didWrite

\* a throttle test that forgets the window
throttleProcessing_NoWindow(w) ==
    w.lastInterceptAt # Null /\ w.lastInterceptAt # 0

\* line 304: a truthy lastInterceptAt less than THROTTLE_MS ago
throttleProcessing(w) ==
    /\ w.lastInterceptAt # Null
    /\ w.lastInterceptAt # 0
    /\ now - w.lastInterceptAt < THROTTLE_MS

\* a lookup that finds a record for every key
nextEntryFound_Always(tes, key) == TRUE

\* line 323: terminalEntries.find((e) => e.key === log.key) is not undefined
nextEntryFound(tes, key) == \E i \in 1..Len(tes) : tes[i].key = key

\* the keys of the records of a snapshot
RecordKeys(tes) == {tes[i].key : i \in 1..Len(tes)}

\* handleGraphChange(log, logger, didWrite); g is the graph as it is now,
\* k is log.key and n numbers the onGraphChange call this call comes from
handleGraphChange(w, g, k, n, didWrite) ==
    LET log == g[k]
        w0 == [w EXCEPT !.updatePending = FALSE, !.logger = TRUE]
        throttle == throttleProcessing(w0)
        w1 == IF Intercepted(log, didWrite)
              THEN [w0 EXCEPT !.lastInterceptAt = now] ELSE w0
        call == [n |-> n, fromStdStream |-> log.fromStdStream,
                 didWrite |-> didWrite]
    IN IF Intercepted(log, didWrite) /\ throttle
       THEN LET s == stopLoop(w1)
            IN [s EXCEPT !.updatePending = TRUE,
                         !.timeouts = Append(@, [at |-> now + THROTTLE_MS,
                                                 key |-> k, n |-> n]),
                         !.owed = TRUE,
                         !.deferrals = [@ EXCEPT ![n] = @ + 1],
                         !.lastCall = call @@ [outcome |-> "deferred",
                                               hasRecord |-> FALSE]]
       ELSE LET b == fullRender(w1, g)
                tes == b.entries
                found == nextEntryFound(tes, log.key)
                w2 == [b.w EXCEPT !.lastCall =
                          call @@ [outcome |-> "built",
                                   hasRecord |-> log.key \in RecordKeys(tes)]]
            IN IF ~found THEN w2 ELSE render(w2, tes, didWrite)

\* init(): the screen and its boxes; the key handlers are registered
init(w) == [w EXCEPT !.main = <<>>, !.initialized = TRUE]

\* basicRender(entry, logger): empty for an entry without a message
basicRender(entry) == entry.msg

onGraphChange(w, g, k, n) ==
    LET entry == g[k]
        out == basicRender(entry)
        w0 == IF entry.level = LogLevelError /\ out # <<>>
              THEN [w EXCEPT !.errorMessages = Append(@, out)] ELSE w
        w1 == IF ~w0.initialized THEN init(w0) ELSE w0
    IN handleGraphChange(w1, g, k, n, FALSE)

\* onGraphChange(entry, logger) when the formatting of entry raises in the
\* build: no try statement encloses the calls of lines 297-413, so the
\* statements before the raise have run and the exception reaches the caller;
\* the entry is the last of the graph and is not a std-stream entry
onGraphChangeRaising(w, g, k) ==
    LET entry == g[k]
        w0 == IF ~w.initialized THEN init(w) ELSE w
        w1 == [w0 EXCEPT !.updatePending = FALSE, !.logger = TRUE]
        visible == SelectSeq(g, LAMBDA e : Visible(w.level, e))
        r == FullRenderFrom(SubSeq(visible, 1, Len(visible) - 1),
                            w1.spinners, 0, <<>>)
        sp == IF entry.status = "active"
              THEN tickSpinner(r.spinners, entry.key).spinners
              ELSE Del(r.spinners, entry.key)
    IN [w1 EXCEPT !.spinners = sp, !.propagated = TRUE]

changeLevel(w, g, lvl) ==
    LET w0 == [w EXCEPT !.level = lvl, !.clean = FALSE]
    IN IF w0.logger /\ w0.initialized
       THEN LET w1 == [w0 EXCEPT !.prevOutput = <<>>, !.main = <<>>]
                b == fullRender(w1, g)
            IN render(b.w, b.entries, FALSE)
       ELSE w0

stop(w) == [stopLoop(w) EXCEPT !.stopped = TRUE]

----------------------------------------------------------------------------
(* The log graph and the writer's environment *)

Statuses == {"active", "done"}
Msgs == {<<>>, <<CharA, CharB>>}
EntryLevels == {LogLevelWarn, LogLevelInfo}
\* the keys "1" and "2" of the log-level key handler
KeyLevels == {LogLevelWarn, LogLevelInfo}

\* new entries: written by the logger, or intercepted from a std stream
\* (these have no status); a new entry has a message
NewEntries ==
    [level : EntryLevels, fromStdStream : {FALSE}, status : Statuses,
     msg : Msgs \ {<<>>}]
    \cup [level : {LogLevelInfo}, fromStdStream : {TRUE}, status : {"done"},
          msg : Msgs \ {<<>>}]

WriterInit ==
    /\ level = LogLevelInfo
    /\ spinners = <<>>
    /\ intervalID = NoTimer
    /\ lastInterceptAt = Null
    /\ updatePending = FALSE
    /\ initialized = FALSE
    /\ errorMessages = <<>>
    /\ prevOutput = <<>>
    /\ logger = FALSE
    /\ main = <<>>
    /\ intervals = {}
    /\ timeouts = <<>>
    /\ now = Tick
    /\ entries = <<>>
    /\ nNotifs = 0
    /\ nUpdates = 0
    /\ nAux = 0
    /\ burst = TRUE
    /\ lastNotifAt = Null
    /\ renderAt = <<>>
    /\ owed = FALSE
    /\ lastCall = [n |-> 0, fromStdStream |-> FALSE, didWrite |-> FALSE,
                   outcome |-> "none", hasRecord |-> FALSE]
    /\ deferrals = <<>>
    /\ lastWrite = [called |-> FALSE, prev |-> <<>>, output |-> <<>>, rows |-> {}]
    /\ clean = FALSE
    /\ lastRender = [called |-> FALSE, didWrite |-> FALSE, repeat |-> FALSE,
                     setLines |-> 0, spinning |-> FALSE, output |-> <<>>,
                     fresh |-> FALSE, wasLooping |-> FALSE]
    /\ seenActive = {}
    /\ retired = {}
    /\ afterBuild = [retired |-> {}, spinnerKeys |-> {}, coordKeys |-> {},
                     coordPairs |-> {}, visible |-> <<>>, snapshot |-> <<>>]
    /\ stopped = FALSE
    /\ propagated = FALSE

\* the observations of a notification: whether the burst goes on
NotifyEnv(g, k) ==
    /\ nNotifs' = nNotifs + 1
    /\ burst' = (/\ burst
                 /\ g[k].fromStdStream
                 /\ (lastNotifAt = Null \/ now - lastNotifAt < THROTTLE_MS))
    /\ lastNotifAt' = now
    /\ entries' = g

\* the logger adds an entry to the graph and notifies the writer of it
LogAdd(e) ==
    /\ ~propagated
    /\ nNotifs + nAux < MaxOps
    /\ Len(entries) < MaxEntries
    /\ LET k == Len(entries) + 1
           g == Append(entries, e @@ [key |-> k])
       IN /\ Assign(onGraphChange([W EXCEPT !.deferrals = Append(@, 0),
                                            !.clean = FALSE],
                                  g, k, nNotifs + 1))
          /\ NotifyEnv(g, k)
    /\ UNCHANGED <<now, nUpdates, nAux>>
    /\ UNCHANGED streamVars

\* the logger adds an entry whose formatting raises (formatForTerminal
\* throws) and notifies the writer of it; the run is followed up to here
LogAddRaising(e) ==
    /\ ~propagated
    /\ nNotifs + nAux < MaxOps
    /\ Len(entries) < MaxEntries
    /\ ~e.fromStdStream
    /\ Visible(level, e)
    /\ LET k == Len(entries) + 1
           g == Append(entries, e @@ [key |-> k])
       IN /\ Assign(onGraphChangeRaising(W, g, k))
          /\ entries' = g
    /\ UNCHANGED <<now, nNotifs, nUpdates, nAux, burst, lastNotifAt>>
    /\ UNCHANGED streamVars

\* the logger sets the state of an entry (entry.setState; the new state may
\* equal the old one) and notifies the writer of it
LogSetState(k, status, msg) ==
    /\ ~propagated
    /\ nNotifs + nAux < MaxOps
    /\ k \in 1..Len(entries)
    /\ LET same == <<status, msg>> = <<entries[k].status, entries[k].msg>>
           g == [entries EXCEPT ![k].status = status, ![k].msg = msg]
           gone == IF status = "active" THEN retired \ {k}
                   ELSE IF k \in seenActive /\ entries[k].status = "active"
                   THEN retired \cup {k}
                   ELSE retired
       IN /\ same \/ (nUpdates < MaxUpdates /\ ~entries[k].fromStdStream)
          /\ nUpdates' = IF same THEN nUpdates ELSE nUpdates + 1
          /\ Assign(onGraphChange([W EXCEPT !.deferrals = Append(@, 0),
                                            !.clean = IF same THEN @ ELSE FALSE,
                                            !.retired = gone],
                                  g, k, nNotifs + 1))
          /\ NotifyEnv(g, k)
    /\ UNCHANGED <<now, nAux>>
    /\ UNCHANGED streamVars

\* a catch-up timer set by handleGraphChange fires (lines 313-317)
TimeoutFire ==
    /\ ~propagated
    /\ timeouts # <<>>
    /\ Head(timeouts).at <= now
    /\ LET t == Head(timeouts)
           w0 == [W EXCEPT !.timeouts = Tail(@)]
       IN Assign(IF w0.updatePending
                 THEN handleGraphChange(w0, entries, t.key, t.n, TRUE)
                 ELSE w0)
    /\ UNCHANGED envVars
    /\ UNCHANGED streamVars

\* a spinner interval fires (line 260)
SpinTick ==
    /\ ~propagated
    /\ nNotifs + nAux < MaxOps
    /\ \E iv \in intervals :
          Assign([spin(W, iv.entries) EXCEPT !.lastRender.fresh = FALSE])
    /\ nAux' = nAux + 1
    /\ UNCHANGED <<now, entries, nNotifs, nUpdates, burst, lastNotifAt>>
    /\ UNCHANGED streamVars

\* a log-level key is pressed (lines 138-146)
KeyLevel(lvl) ==
    /\ ~propagated
    /\ initialized
    /\ nNotifs + nAux < MaxOps
    /\ Assign(changeLevel(W, entries, lvl))
    /\ nAux' = nAux + 1
    /\ burst' = FALSE
    /\ UNCHANGED <<now, entries, nNotifs, nUpdates, lastNotifAt>>
    /\ UNCHANGED streamVars

Stop ==
    /\ ~propagated
    /\ nNotifs + nAux < MaxOps
    /\ Assign(stop(W))
    /\ nAux' = nAux + 1
    /\ UNCHANGED <<now, entries, nNotifs, nUpdates, burst, lastNotifAt>>
    /\ UNCHANGED streamVars

\* time passes; a due timer fires before it passes further
Advance ==
    /\ ~propagated
    /\ now + Tick <= Tick * MaxTicks
    /\ IF timeouts = <<>> THEN TRUE ELSE Head(timeouts).at > now
    /\ now' = now + Tick
    /\ UNCHANGED <<entries, nNotifs, nUpdates, nAux, burst,
                   lastNotifAt>>
    /\ UNCHANGED writerVars
    /\ UNCHANGED streamVars

----------------------------------------------------------------------------
(* BufferedEventStream *)

\* a splice that takes the records from the end of the queue
splice_FromEnd(q, count) ==
    LET n == IF count < 0 THEN 0 ELSE Min(count, Len(q))
    IN [removed |-> SubSeq(q, Len(q) - n + 1, Len(q)),
        rest |-> SubSeq(q, 1, Len(q) - n)]

\* array.splice(0, count)
splice(q, count) ==
    LET n == IF count < 0 THEN 0 ELSE Min(count, Len(q))
    IN [removed |-> SubSeq(q, 1, n), rest |-> SubSeq(q, n + 1, Len(q))]

\* a count that forgets flushAll
EventFlushCount_Capped(events, flushAll) == MAX_BATCH_SIZE

\* line 517: the count of the events splice
EventFlushCount(events, flushAll) ==
    IF flushAll THEN Len(events) ELSE MAX_BATCH_SIZE

\* a count that forgets the events already taken
logEntryFlushCount_OwnCap(logEntries, flushAll, eventsToFlush) ==
    IF flushAll THEN Len(logEntries) ELSE MAX_BATCH_SIZE

\* line 538: the count of the log entries splice
logEntryFlushCount(logEntries, flushAll, eventsToFlush) ==
    IF flushAll THEN Len(logEntries) ELSE MAX_BATCH_SIZE - Len(eventsToFlush)

S == [bufferedEvents |-> bufferedEvents,
      bufferedLogEntries |-> bufferedLogEntries,
      intervalId |-> intervalId, posted |-> posted, flushes |-> flushes]

\* flushBuffered({flushAll}); each "would post" block stands for its post
flushBuffered(s, flushAll) ==
    LET ev == splice(s.bufferedEvents, EventFlushCount(s.bufferedEvents, flushAll))
        eventsToFlush == ev.removed
        le == splice(s.bufferedLogEntries,
                     logEntryFlushCount(s.bufferedLogEntries, flushAll,
                                        eventsToFlush))
        logEntriesToFlush == le.removed
        p1 == IF Len(eventsToFlush) > 0
              THEN Append(s.posted, [kind |-> "events", records |-> eventsToFlush])
              ELSE s.posted
        p2 == IF Len(logEntriesToFlush) > 0
              THEN Append(p1, [kind |-> "logEntries",
                               records |-> logEntriesToFlush])
              ELSE p1
    IN [s EXCEPT !.bufferedEvents = ev.rest,
                 !.bufferedLogEntries = le.rest,
                 !.posted = p2,
                 !.flushes = Append(@, [flushAll |-> flushAll,
                                        events |-> eventsToFlush,
                                        logEntries |-> logEntriesToFlush,
                                        hadEvents |-> Len(s.bufferedEvents),
                                        hadLogEntries |-> Len(s.bufferedLogEntries),
                                        leftEvents |-> Len(ev.rest),
                                        leftLogEntries |-> Len(le.rest),
                                        posts |-> SubSeq(p2, Len(s.posted) + 1,
                                                         Len(p2))])]

\* a cleanup that leaves the flush interval running
cleanupFunction_KeepsTimer(s) == flushBuffered(s, TRUE)

\* the cleanup function registered by the constructor (lines 496-502)
cleanupFunction(s) ==
    LET s1 == IF s.intervalId # NoTimer
              THEN [s EXCEPT !.intervalId = NoTimer] ELSE s
    IN flushBuffered(s1, TRUE)

AssignStream(s) ==
    /\ bufferedEvents' = s.bufferedEvents
    /\ bufferedLogEntries' = s.bufferedLogEntries
    /\ intervalId' = s.intervalId
    /\ posted' = s.posted
    /\ flushes' = s.flushes

\* numbers of records buffered when the first flush is due
InitCounts == {0, 1, MAX_BATCH_SIZE - 1, MAX_BATCH_SIZE, MAX_BATCH_SIZE + 1,
               MAX_BATCH_SIZE + Surplus}

\* after the constructor: both queues empty, the flush interval set
StreamInit ==
    /\ bufferedEvents = <<>>
    /\ bufferedLogEntries = <<>>
    /\ intervalId = 1
    /\ posted = <<>>
    /\ flushes = <<>>
    /\ shutdownRan = FALSE
    /\ arrived = [events |-> 0, logEntries |-> 0]
    /\ nStreamed = 0
    /\ nFlushes = 0

\* the constructor, then e events and l log entries streamed; a record is
\* named by its place in the arrival order of its kind
StreamInitBuffered ==
    /\ \E e \in InitCounts, l \in InitCounts :
          /\ bufferedEvents = [i \in 1..e |-> i]
          /\ bufferedLogEntries = [i \in 1..l |-> i]
          /\ arrived = [events |-> e, logEntries |-> l]
    /\ intervalId = 1
    /\ posted = <<>>
    /\ flushes = <<>>
    /\ shutdownRan = FALSE
    /\ nStreamed = 0
    /\ nFlushes = 0

\* the eventBus.onAny handler (lines 484-490)
streamEvent ==
    /\ nStreamed < MaxStreamed
    /\ bufferedEvents' = Append(bufferedEvents, arrived.events + 1)
    /\ arrived' = [arrived EXCEPT !.events = @ + 1]
    /\ nStreamed' = nStreamed + 1
    /\ UNCHANGED <<bufferedLogEntries, intervalId, posted, flushes,
                   shutdownRan, nFlushes>>
    /\ UNCHANGED <<writerVars, envVars>>

streamLogEntry ==
    /\ nStreamed < MaxStreamed
    /\ bufferedLogEntries' = Append(bufferedLogEntries, arrived.logEntries + 1)
    /\ arrived' = [arrived EXCEPT !.logEntries = @ + 1]
    /\ nStreamed' = nStreamed + 1
    /\ UNCHANGED <<bufferedEvents, intervalId, posted, flushes, shutdownRan,
                   nFlushes>>
    /\ UNCHANGED <<writerVars, envVars>>

\* the flush interval fires (lines 492-494)
FlushTimer ==
    /\ intervalId # NoTimer
    /\ nFlushes < MaxFlushes
    /\ AssignStream(flushBuffered(S, FALSE))
    /\ nFlushes' = nFlushes + 1
    /\ UNCHANGED <<shutdownRan, arrived, nStreamed>>
    /\ UNCHANGED <<writerVars, envVars>>

\* the process shuts down and runs its cleanup functions, once
Shutdown ==
    /\ ~shutdownRan
    /\ AssignStream(cleanupFunction(S))
    /\ shutdownRan' = TRUE
    /\ UNCHANGED <<arrived, nStreamed, nFlushes>>
    /\ UNCHANGED <<writerVars, envVars>>

----------------------------------------------------------------------------
(* Specifications *)

Init == WriterInit /\ StreamInit

Next ==
    \/ \E e \in NewEntries : LogAdd(e)
    \/ \E e \in NewEntries : LogAddRaising(e)
    \/ \E k \in 1..MaxEntries, status \in Statuses, msg \in Msgs :
          LogSetState(k, status, msg)
    \/ TimeoutFire
    \/ SpinTick
    \/ \E lvl \in KeyLevels : KeyLevel(lvl)
    \/ Stop
    \/ Advance

Spec == Init /\ [][Next]_vars

InitStream == WriterInit /\ StreamInitBuffered

NextStream ==
    \/ streamEvent
    \/ streamLogEntry
    \/ FlushTimer
    \/ Shutdown

SpecStream == InitStream /\ [][NextStream]_vars

----------------------------------------------------------------------------
(* Properties *)

Max(a, b) == IF a > b THEN a ELSE b

\* the rows in which two lists of lines differ, rows present in only one of
\* them included
DiffRows(prev, output) ==
    {y \in 0..(Max(Len(prev), Len(output)) - 1) :
        \/ y >= Len(prev)
        \/ y >= Len(output)
        \/ prev[y + 1] # output[y + 1]}

\* C1: while every notification so far came from a std stream, less than
\* THROTTLE_MS after the one before it, two renders (immediate or catch-up)
\* are never less than THROTTLE_MS apart.
C1_OneRenderPerWindow ==
    (burst /\ Len(renderAt) = 2) => renderAt[2] - renderAt[1] >= THROTTLE_MS

\* C2: once no catch-up timer is pending, every deferred notification has been
\* followed by a render that applied the snapshot to the canvas.
C2_TrailingRenderApplied == (timeouts = <<>>) => ~owed

\* C3: only a std-stream notification that is not a catch-up call is deferred;
\* every other call builds the snapshot; no notification is deferred twice.
C3_DeferOnlyLiveFirstCall ==
    /\ lastCall.outcome = "deferred" =>
          (lastCall.fromStdStream /\ ~lastCall.didWrite)
    /\ (lastCall.outcome # "none"
          /\ (~lastCall.fromStdStream \/ lastCall.didWrite)) =>
          lastCall.outcome = "built"
    /\ \A n \in 1..Len(deferrals) : deferrals[n] <= 1

\* a catch-up call of a deferred std-stream notification built the snapshot
C3_Witness ==
    /\ lastCall.didWrite
    /\ lastCall.fromStdStream
    /\ lastCall.outcome = "built"
    /\ deferrals[lastCall.n] = 1

\* C4: write() sets exactly the rows in which prevOutput and the new output
\* differ, rows present in only one of them included, and no other row.
C4_DiffMinimality ==
    lastWrite.called =>
        lastWrite.rows = DiffRows(lastWrite.prev, lastWrite.output)

\* C5 as stated: a render that follows a render, with no change of the graph
\* and no log-level key in between, sets no line, spinners or not.
C5_SecondRenderWritesNothing ==
    (lastRender.called /\ lastRender.repeat) => lastRender.setLines = 0

\* C5 as amended: a render that follows a render, with no change of the graph
\* and no log-level key in between, sets no line when no entry of the
\* snapshot has a spinner.
C5_SecondRenderWritesNothingUnlessSpinning ==
    (lastRender.called /\ lastRender.repeat /\ ~lastRender.spinning) =>
        lastRender.setLines = 0

\* a second render through write() of a snapshot of more than one row
C5_Witness ==
    /\ lastRender.called
    /\ lastRender.repeat
    /\ ~lastRender.spinning
    /\ ~lastRender.didWrite
    /\ lastWrite.output = prevOutput
    /\ Len(lastWrite.output) > 1
    /\ lastWrite.rows = {}

\* C6: an entry that a build saw active and that then became non-active has,
\* after the next build, no spinner in the spinners map and no spinnerCoords
\* in the snapshot.
C6_SpinnerForgotten ==
    afterBuild.retired \cap (afterBuild.spinnerKeys \cup afterBuild.coordKeys) = {}

\* C7: a flush without flushAll removes min(E, MAX_BATCH_SIZE) events, then
\* log entries up to what is left of MAX_BATCH_SIZE, never more in total.
C7_BatchCap ==
    \A i \in 1..Len(flushes) :
        LET f == flushes[i]
            e == Min(f.hadEvents, MAX_BATCH_SIZE)
        IN ~f.flushAll =>
              /\ Len(f.events) = e
              /\ Len(f.logEntries) = Min(f.hadLogEntries, MAX_BATCH_SIZE - e)
              /\ Len(f.events) + Len(f.logEntries) <= MAX_BATCH_SIZE

\* more events than MAX_BATCH_SIZE: the first flush removes MAX_BATCH_SIZE
\* and the second the rest
C7_Witness ==
    /\ Len(flushes) = 2
    /\ ~flushes[1].flushAll /\ ~flushes[2].flushAll
    /\ flushes[1].hadEvents = MAX_BATCH_SIZE + Surplus
    /\ flushes[1].hadLogEntries > 0
    /\ Len(flushes[1].events) = MAX_BATCH_SIZE
    /\ flushes[1].logEntries = <<>>
    /\ flushes[2].hadEvents = Surplus
    /\ Len(flushes[2].events) = Surplus
    /\ Len(flushes[2].logEntries) > 0

\* C8: a flush with flushAll leaves both queues empty.
C8_ForcedFlushEmpties ==
    \A i \in 1..Len(flushes) :
        flushes[i].flushAll =>
            (flushes[i].leftEvents = 0 /\ flushes[i].leftLogEntries = 0)

\* a forced flush of more than MAX_BATCH_SIZE records of either kind
C8_Witness ==
    \E i \in 1..Len(flushes) :
        /\ flushes[i].flushAll
        /\ flushes[i].hadEvents > MAX_BATCH_SIZE
        /\ flushes[i].hadLogEntries > MAX_BATCH_SIZE
        /\ flushes[i].leftEvents = 0
        /\ flushes[i].leftLogEntries = 0

C10_NothingAfterStop ==
    [][stopped =>
          /\ intervals' = {}
          /\ UNCHANGED <<level, spinners, intervalID, lastInterceptAt,
                         updatePending, prevOutput, main, afterBuild,
                         lastWrite>>]_vars

\* the (key, coords) pairs a spinner interval ticks
TickedPairs(iv) ==
    {<<iv.entries[i].key, iv.entries[i].spinnerCoords>> :
        i \in 1..Len(iv.entries)}

\* C11: a spinner interval runs only while a visible entry of the graph has
\* status active, and it ticks exactly the (key, coords) pairs of the records
\* with spinnerCoords of the snapshot built last.
C11_LoopOnlyWhileActive ==
    \A iv \in intervals :
        /\ \E k \in 1..Len(entries) :
              Visible(level, entries[k]) /\ entries[k].status = "active"
        /\ TickedPairs(iv) = afterBuild.coordPairs

\* C12: a flush that removes a record makes one call of the sink, with all
\* the events and log entries it removed; a flush that removes nothing makes
\* no call.
C12_OneSinkCallPerFlush ==
    \A i \in 1..Len(flushes) :
        LET f == flushes[i]
        IN IF f.events = <<>> /\ f.logEntries = <<>>
           THEN f.posts = <<>>
           ELSE Len(f.posts) = 1

\* C13: after a render (immediate, catch-up or level change) and before the
\* next spinner tick, prevOutput is the flattened lines of the snapshot
\* rendered and every canvas row below Len(prevOutput) shows its line.
C13_PrevOutputMirrorsCanvas ==
    (lastRender.called /\ lastRender.fresh) =>
        /\ prevOutput = lastRender.output
        /\ \A y \in 0..(Len(prevOutput) - 1) :
              getLine(main, y) = prevOutput[y + 1]

\* C14 as stated: lastInterceptAt changes only in a std-stream notification
\* that is rendered at once; a deferred notification, a catch-up call and a
\* notification of another entry leave it as it is.
C14_InterceptAtOnlyOnImmediateRender ==
    [][lastInterceptAt' # lastInterceptAt =>
          /\ nNotifs' = nNotifs + 1
          /\ lastCall'.fromStdStream
          /\ ~lastCall'.didWrite
          /\ lastCall'.outcome = "built"]_vars

\* C14 as amended: lastInterceptAt changes only in a std-stream notification
\* that is not a catch-up call, and every such notification sets it to the
\* time of the call, deferred or not; the notification is deferred exactly
\* when it comes less than THROTTLE_MS after the std-stream notification
\* before it.
C14_InterceptAtOnEveryLiveNotification ==
    [][/\ lastInterceptAt' # lastInterceptAt =>
             /\ nNotifs' = nNotifs + 1
             /\ lastCall'.fromStdStream
             /\ ~lastCall'.didWrite
       /\ (nNotifs' = nNotifs + 1 /\ lastCall'.fromStdStream) =>
             /\ lastInterceptAt' = now
             /\ (lastCall'.outcome = "deferred") <=>
                   (lastInterceptAt # Null
                      /\ now - lastInterceptAt < THROTTLE_MS)]_vars

\* a std-stream notification was deferred THROTTLE_MS or more after the one
\* render so far, because a deferred notification in between had moved
\* lastInterceptAt
C14_Witness ==
    /\ lastCall.outcome = "deferred"
    /\ lastCall.n = nNotifs
    /\ lastInterceptAt = now
    /\ Len(renderAt) = 1
    /\ now - renderAt[1] >= THROTTLE_MS

\* C15: at most one catch-up timer is pending at any time.
C15_OneCatchUpTimer == Len(timeouts) <= 1

\* a step in which handleGraphChange ran: a notification, or a catch-up timer
\* that found updatePending set
CallRan ==
    \/ nNotifs' = nNotifs + 1
    \/ (timeouts # <<>> /\ timeouts' = Tail(timeouts) /\ updatePending)

\* the call of this step built a snapshot without a record for its entry
FilteredCall ==
    CallRan /\ lastCall'.outcome = "built" /\ ~lastCall'.hasRecord

C17_FailureContained == ~propagated

\* the events, and the log entries, removed by the first n flushes, in order
RECURSIVE RemovedEvents(_)
RemovedEvents(n) ==
    IF n = 0 THEN <<>> ELSE RemovedEvents(n - 1) \o flushes[n].events

RECURSIVE RemovedLogEntries(_)
RemovedLogEntries(n) ==
    IF n = 0 THEN <<>> ELSE RemovedLogEntries(n - 1) \o flushes[n].logEntries

\* C18: for each kind, the batches removed by the flushes, in flush order,
\* followed by the queue, are the records in their order of arrival, each
\* once.
C18_ExactlyOnceInOrder ==
    /\ RemovedEvents(Len(flushes)) \o bufferedEvents =
          [i \in 1..arrived.events |-> i]
    /\ RemovedLogEntries(Len(flushes)) \o bufferedLogEntries =
          [i \in 1..arrived.logEntries |-> i]

\* two flushes removed records of both kinds, a record was streamed, and log
\* entries are still queued
C18_Witness ==
    /\ Len(flushes) >= 2
    /\ Len(flushes[1].events) = MAX_BATCH_SIZE
    /\ flushes[2].events # <<>>
    /\ flushes[2].logEntries # <<>>
    /\ bufferedLogEntries # <<>>
    /\ nStreamed > 0

\* the row of the flattened lines in which record i of a snapshot starts
StartRow(tes, i) == CountNL(JoinTexts(SubSeq(tes, 1, i - 1)))

\* C19: in the snapshot built last, the records are in the order of their
\* entries, no record has an empty text, lineNumbers do not decrease, each
\* lineNumber and each spinnerCoords row is the row of the flattened lines in
\* which the text of the record starts, and the lines in the middle of a text
\* are the rows that follow.
C19_LineAccounting ==
    LET tes == afterBuild.snapshot
        output == SplitNL(JoinTexts(tes))
    IN /\ \A i, j \in 1..Len(tes) : i < j => tes[i].key < tes[j].key
       /\ \A i \in 1..Len(tes) :
             /\ tes[i].text # <<>>
             /\ i > 1 => tes[i - 1].lineNumber <= tes[i].lineNumber
             /\ tes[i].lineNumber = StartRow(tes, i)
             /\ tes[i].spinnerCoords # NoCoords =>
                   tes[i].spinnerCoords[2] = StartRow(tes, i)
             /\ LET lines == SplitNL(tes[i].text)
                IN \A k \in 2..(Len(lines) - 1) :
                      output[tes[i].lineNumber + k] = lines[k]
       /\ RecordKeys(tes) \subseteq
             {afterBuild.visible[i].key : i \in 1..Len(afterBuild.visible)}

\* a snapshot of two records in which the second starts below row 0 and has
\* spinnerCoords, and the first has a line in the middle of its text
C19_Witness ==
    LET tes == afterBuild.snapshot
    IN /\ Len(tes) = 2
       /\ tes[2].lineNumber > 1
       /\ tes[2].spinnerCoords # NoCoords
       /\ Len(SplitNL(tes[1].text)) > 2

\* a visible entry with an empty text has no record and takes no row
C19_WitnessEmpty ==
    LET tes == afterBuild.snapshot
    IN /\ Len(afterBuild.visible) = 2
       /\ Len(tes) = 1
       /\ tes[1].key = 2
       /\ tes[1].lineNumber = 0

\* C20: at most one spinner interval is live, it is the one intervalID
\* records, intervalID is null exactly when none is live, and stopLoop on a
\* stopped loop changes nothing.
C20_OneSpinnerInterval ==
    /\ Cardinality(intervals) <= 1
    /\ \A iv \in intervals : iv.id = intervalID
    /\ (intervalID = NoTimer) <=> (intervals = {})
    /\ intervalID = NoTimer => stopLoop(W) = W

\* a render started the loop while a loop was running, after stop() had
\* been called: one interval is live
C20_Witness ==
    /\ lastRender.called
    /\ lastRender.wasLooping
    /\ lastRender.spinning
    /\ stopped
    /\ Cardinality(intervals) = 1

====
